---- MODULE Spec2Model ----
(***************************************************************************)
(* The O*NET bulk scraping pipeline of dfp-job-analyzer:                   *)
(*   src/scrape_all_final.py        FinalONETScraper     (variant "final") *)
(*   src/fan-yang/onet_scraper.py   EnhancedONETScraper  (variant          *)
(*                                                        "enhanced")      *)
(* Page fetch with retry, the merge of persisted and scraped records, the  *)
(* progress reporter, the item loop with its checkpoints, and link         *)
(* discovery.  Each part has its own specification over the shared state.  *)
(***************************************************************************)
EXTENDS Integers, Sequences, FiniteSets, TLC

(* ------------------------------ bounds -------------------------------- *)
\* Length of the per-attempt outcome sequence the network is given, and the
\* largest value of get_page's retries parameter that is explored.
MaxRetries == 3
\* Longest record list handed to merge_all_data (each of its two inputs).
MaxMergeLen == 2

(* ------------------------- program constants -------------------------- *)
DefaultRetries == 3
TimeoutBackoff == 5
BackoffBase == 2

None == "None"
Soup == "soup"

VARIABLES
    \* get_page
    outcomes,          \* what each HTTP attempt of the call will meet
    retries,           \* get_page's retries argument
    fetch,             \* what the call did and returned
    \* merge_all_data
    new_data,
    existing_data,
    merged,            \* [done, out]: the returned list once called
    \* the scraper object and the wall clock
    variant,           \* "final" (scrape_all_final.py) or "enhanced"
    now,               \* datetime.now(), in whole seconds
    start_time,
    last_report_time,
    last_call,         \* the latest should_report_progress call
    true_calls,        \* clock times of the calls that returned True
    reports,           \* progress reports emitted by report_progress
    rp_args,           \* arguments of a direct report_progress call
    rp_ret,            \* how that call ended
    \* scrape_all_occupations / scrape_all_occupations_enhanced
    pc,
    all_links,         \* the title-keyed mapping, in insertion order
    i,                 \* enumerate(..., 1): items processed so far
    all_data,
    failed_count,
    files,             \* checkpoint files on disk: name -> content
    items,             \* what happened to each item processed so far
    hiccups,           \* items so far that were not a plain quick success
    \* get_all_occupation_links
    family_idx,        \* rows of occupation_families visited so far
    family_log,        \* what the visit of each row did
    \* main
    main_pc,
    main_exit,         \* how main ended
    steps,             \* the calls of main that returned, in order
    saved,             \* what the final save did
    reads,             \* names of the files opened for reading
    \* cleanup_temp_files
    locked,            \* names of the files os.remove fails on
    cleaned,           \* what the call did
    \* extract_occupation_info / extract_comprehensive_data
    ex_in,             \* the page and the step that raises, if any
    ex_out,            \* the record returned
    \* api_job_posting_search.fetch_jobs
    jobs,              \* the call's arguments, locals and requests so far
    \* BLSAPIClient
    bls                \* the client's fields and the calls made on it

fetchVars == <<outcomes, retries, fetch>>
mergeVars == <<new_data, existing_data, merged>>
clockVars ==
    <<variant, now, start_time, last_report_time, last_call, true_calls,
      reports>>
callVars == <<rp_args, rp_ret>>
runVars ==
    <<pc, all_links, i, all_data, failed_count, files, items, hiccups,
      family_idx, family_log>>
mainVars == <<main_pc, main_exit, steps, saved, reads>>
cleanVars == <<locked, cleaned>>
exVars == <<ex_in, ex_out>>
apiVars == <<jobs, bls>>
vars == <<outcomes, retries, fetch, new_data, existing_data, merged,
          variant, now, start_time, last_report_time, last_call,
          true_calls, reports,
          rp_args, rp_ret,
          pc, all_links, i, all_data, failed_count, files, items, hiccups,
          family_idx, family_log,
          main_pc, main_exit, steps, saved, reads,
          locked, cleaned, ex_in, ex_out, jobs, bls>>

(* ======================= Page fetch with retry ======================== *)
\* session.get(url, timeout=30) followed by raise_for_status(): the attempt
\* succeeds, raises requests.exceptions.Timeout, or raises another
\* requests.exceptions.RequestException.
AttemptOutcomes == {"ok", "timeout", "error"}
\* An exception of any other class (raised by the parser, say) is not
\* caught inside get_page.
Crash == "crash"

RECURSIVE SeqsOfLen(_, _)
SeqsOfLen(S, n) ==
    IF n = 0 THEN {<<>>}
    ELSE {Append(s, x) : s \in SeqsOfLen(S, n - 1), x \in S}

RECURSIVE SeqsUpTo(_, _)
SeqsUpTo(S, n) ==
    IF n = 0 THEN {<<>>} ELSE SeqsUpTo(S, n - 1) \cup SeqsOfLen(S, n)

RECURSIVE Pow(_, _)
Pow(b, e) == IF e = 0 THEN 1 ELSE b * Pow(b, e - 1)

RECURSIVE SumSeq(_)
SumSeq(s) == IF s = <<>> THEN 0 ELSE Head(s) + SumSeq(Tail(s))

\* The state of one get_page call: requests issued, sleeps taken, log
\* entries emitted, and the value returned.
FetchStart ==
    [called |-> FALSE, requests |-> 0, sleeps |-> <<>>, log |-> <<>>,
     result |-> None, raised |-> FALSE]

\* The sleep taken whatever the attempt, the last one included.
OnTimeoutMutAlwaysSleep(acc, attempt, n) ==
    [acc EXCEPT !.log = Append(@, "warning"),
                !.sleeps = Append(@, TimeoutBackoff)]
\* except requests.exceptions.Timeout: warning, then sleep 5 unless last.
OnTimeout(acc, attempt, n) ==
    IF attempt < n - 1
    THEN [acc EXCEPT !.log = Append(@, "warning"),
                     !.sleeps = Append(@, TimeoutBackoff)]
    ELSE [acc EXCEPT !.log = Append(@, "warning")]

\* except requests.exceptions.RequestException: warning, then sleep
\* 2 ** attempt unless last, else an error entry.
OnRequestException(acc, attempt, n) ==
    IF attempt < n - 1
    THEN [acc EXCEPT !.log = Append(@, "warning"),
                     !.sleeps = Append(@, Pow(BackoffBase, attempt))]
    ELSE [acc EXCEPT !.log = Append(Append(@, "warning"), "error")]

\* for attempt in range(retries): try the request; return the soup on
\* success; an exception that is no requests exception leaves the call.
RECURSIVE GetPageLoop(_, _, _, _)
GetPageLoop(outs, n, attempt, acc) ==
    IF attempt >= n THEN [acc EXCEPT !.result = None]
    ELSE LET o == outs[attempt + 1]
             sent == [acc EXCEPT !.requests = @ + 1]
         IN  CASE o = "ok" -> [sent EXCEPT !.result = Soup]
               [] o = "timeout" ->
                    GetPageLoop(outs, n, attempt + 1, OnTimeout(sent, attempt, n))
               [] o = "error" ->
                    GetPageLoop(outs, n, attempt + 1,
                                OnRequestException(sent, attempt, n))
               [] OTHER -> [sent EXCEPT !.raised = TRUE]

\* range(retries + 1): one attempt too many.
GetPageMutExtraAttempt(outs, n) ==
    GetPageLoop(outs, n + 1, 0, [FetchStart EXCEPT !.called = TRUE])
GetPage(outs, n) == GetPageLoop(outs, n, 0, [FetchStart EXCEPT !.called = TRUE])

(* ====================== Merger / Deduplicator ========================= *)
Titles == {"X", "Y"}
Salaries == {50, 100, 200}
Records == [title : Titles, salary : Salaries]

\* for item in all_data: if item['title'] not in seen_titles: ...
RECURSIVE Dedup(_, _, _)
Dedup(rest, seen_titles, unique_data) ==
    IF rest = <<>> THEN unique_data
    ELSE LET item == Head(rest)
         IN  IF item.title \notin seen_titles
             THEN Dedup(Tail(rest), seen_titles \cup {item.title},
                        Append(unique_data, item))
             ELSE Dedup(Tail(rest), seen_titles, unique_data)

\* new_data + existing_data: the new records first.
MergeAllDataMutNewFirst(new, existing) == Dedup(new \o existing, {}, <<>>)
\* the concatenation returned without the seen-set filter.
MergeAllDataMutNoDedup(new, existing) == existing \o new
\* all_data = existing_data + new_data, then the seen-set loop.
\* The new records left out of the result.
MergeAllDataMutExistingOnly(new, existing) == Dedup(existing, {}, <<>>)
MergeAllData(new, existing) == Dedup(existing \o new, {}, <<>>)

(* ======================== Progress Reporter =========================== *)
ReportInterval == 600

\* last_report_time left as it was.
ShouldReportMutNoUpdate(t, last) ==
    [ret |-> t - last >= ReportInterval, last |-> last]
\* should_report_progress at clock time t: the value returned and the new
\* last_report_time.
ShouldReport(t, last) ==
    IF t - last >= ReportInterval
    THEN [ret |-> TRUE, last |-> t]
    ELSE [ret |-> FALSE, last |-> last]

\* The divisors report_progress evaluates, in order: current / total,
\* elapsed_time / current (only if current > 0), and
\* success_count / (success_count + failed_count) (only if that sum > 0).
Divisors(current, total, success, failed) ==
    <<total>>
    \o (IF current > 0 THEN <<current>> ELSE <<>>)
    \o (IF success + failed > 0 THEN <<success + failed>> ELSE <<>>)

\* report_progress: ZeroDivisionError on a zero divisor, else the report.
ReportProgress(t, current, total, success, failed) ==
    LET ds == Divisors(current, total, success, failed)
    IN  IF \E k \in 1..Len(ds) : ds[k] = 0
        THEN [raised |-> TRUE]
        ELSE [raised |-> FALSE,
              time |-> t,
              current |-> current,
              total |-> total,
              success |-> success,
              failed |-> failed,
              percent |-> (current * 100) \div total,
              remaining |-> IF current > 0
                            THEN ((t - start_time) * (total - current))
                                     \div current
                            ELSE 0]

(* ============================ Item loop =============================== *)
ItemSleepFinal == 2
ItemSleepEnhanced == 3
CheckpointEveryFinal == 50
CheckpointEveryEnhanced == 25

Variants == {"final", "enhanced"}
\* The loop without its time.sleep.
ItemSleepMutNoSleep(v) == 0
ItemSleep(v) == IF v = "final" THEN ItemSleepFinal ELSE ItemSleepEnhanced
CheckpointEvery(v) ==
    IF v = "final" THEN CheckpointEveryFinal ELSE CheckpointEveryEnhanced

\* datetime.now().strftime("%Y%m%d_%H%M%S"): the clock cut to the second,
\* as <<hours, minutes, seconds>>.
Timestamp(t) == <<t \div 3600, (t \div 60) % 60, t % 60>>
TempFile(v, t) ==
    <<IF v = "final" THEN "temp_all_occupations_"
                     ELSE "temp_enhanced_occupations_", Timestamp(t)>>

\* The record built for one item: extracted says whether the extractors ran
\* over a fetched page (FALSE: the initial, empty field values).
ItemRecord(entry, extracted) ==
    [title |-> entry.title, url |-> entry.url, extracted |-> extracted]

\* The page's record is returned whether or not the fetch gave a page.
ScrapeOccupationDetailsMutNoNoneCheck(entry, page) ==
    IF page.raised THEN [kind |-> "raise"]
    ELSE [kind |-> "data", data |-> ItemRecord(entry, page.result # None)]
\* scrape_occupation_details(title, url): None when get_page gave None.
ScrapeOccupationDetails(entry, page) ==
    IF page.raised THEN [kind |-> "raise"]
    ELSE IF page.result = None THEN [kind |-> "none"]
    ELSE [kind |-> "data", data |-> ItemRecord(entry, TRUE)]

\* extract_comprehensive_data(title, url, family_info): the initialised
\* data structure is returned when get_page gave None.
ExtractComprehensiveData(entry, page) ==
    IF page.raised THEN [kind |-> "raise"]
    ELSE IF page.result = None
    THEN [kind |-> "data", data |-> ItemRecord(entry, FALSE)]
    ELSE [kind |-> "data", data |-> ItemRecord(entry, TRUE)]

\* The function the item loop of each scraper calls.
ExtractItem(v, entry, page) ==
    IF v = "final" THEN ScrapeOccupationDetails(entry, page)
    ELSE ExtractComprehensiveData(entry, page)

\* except Exception: pass -- an item that raised is not counted.
TryItemMutNoExcept(res, data, failed) ==
    IF res.kind = "data"
    THEN [all_data |-> Append(data, res.data), failed_count |-> failed]
    ELSE [all_data |-> data,
          failed_count |-> IF res.kind = "raise" THEN failed ELSE failed + 1]
\* The else branch left out: an item without data is not counted.
TryItemMutNoneUncounted(res, data, failed) ==
    IF res.kind = "data"
    THEN [all_data |-> Append(data, res.data), failed_count |-> failed]
    ELSE [all_data |-> data,
          failed_count |-> IF res.kind = "none" THEN failed ELSE failed + 1]
\* try: data = ...; if data: all_data.append(data) else: failed_count += 1
\* except Exception: failed_count += 1
TryItem(res, data, failed) ==
    IF res.kind = "data"
    THEN [all_data |-> Append(data, res.data), failed_count |-> failed]
    ELSE [all_data |-> data, failed_count |-> failed + 1]

(* =========================== Link Discovery =========================== *)
\* occupation_families, in iteration order: its first rows.
FamilyTable ==
    << [id |-> 15, name |-> "Computer and Mathematical Occupations"],
       [id |-> 13, name |-> "Business and Financial Operations"],
       [id |-> 11, name |-> "Management Occupations"],
       [id |-> 17, name |-> "Architecture and Engineering"] >>
\* Rows of the table the discovery runs visit.
NumFamilies == 2
occupation_families == SubSeq(FamilyTable, 1, NumFamilies)

base_url == "https://www.onetonline.org"

\* An <a> element of a listing page: its stripped text (0: none), its
\* href, and whether its parent is a td of class report2.  An href is its
\* path up to the occupation code, and the code.
NoHref == [path |-> "", code |-> 0]
Anchor(title, path, code, in_report2) ==
    [title |-> title, href |-> [path |-> path, code |-> code],
     in_report2 |-> in_report2]
\* href*="/link/summary/" and href*="/summary/"
HasLinkSummary(href) == href.path = "/link/summary/"
HasSummary(href) == href.path \in {"/link/summary/", "/find/summary/"}

\* The selectors list, by position:
\*   1  a[href*="/link/summary/"]
\*   2  td.report2 > a[href*="/link/summary/"]
\*   3  a[href*="/summary/"]
NumSelectors == 3
Matches(a, selector) ==
    CASE selector = 1 -> HasLinkSummary(a.href)
      [] selector = 2 -> a.in_report2 /\ HasLinkSummary(a.href)
      [] OTHER -> HasSummary(a.href)
\* soup.select(selector): the matching elements in document order.
Select(soup, selector) == SelectSeq(soup, LAMBDA a : Matches(a, selector))

\* urljoin(self.base_url, href)
UrlJoin(base, href) == [base |-> base, href |-> href]

\* A key assigned again moves to the end, as after del d[key].
DictSetMutMoveToEnd(d, entry) ==
    Append(SelectSeq(d, LAMBDA e : e.title # entry.title), entry)
\* d[key] = value on an insertion-ordered dict held as a sequence of
\* entries: a present key keeps its place and takes the new entry.
DictSet(d, entry) ==
    IF \E k \in 1..Len(d) : d[k].title = entry.title
    THEN [k \in 1..Len(d) |->
             IF d[k].title = entry.title THEN entry ELSE d[k]]
    ELSE Append(d, entry)
\* setdefault in place of assignment: a present key keeps its entry.
RECURSIVE DictUpdateMutKeepFirst(_, _)
DictUpdateMutKeepFirst(d, other) ==
    IF other = <<>> THEN d
    ELSE DictUpdateMutKeepFirst(
             IF \E k \in 1..Len(d) : d[k].title = Head(other).title
             THEN d ELSE Append(d, Head(other)),
             Tail(other))
\* d.update(other)
RECURSIVE DictUpdate(_, _)
DictUpdate(d, other) ==
    IF other = <<>> THEN d
    ELSE DictUpdate(DictSet(d, Head(other)), Tail(other))

\* The value stored for a title: the URL, and in the enhanced scraper the
\* family name and id as well.
LinkEntry(v, title, url, family) ==
    IF v = "final" THEN [title |-> title, url |-> url]
    ELSE [title |-> title, url |-> url, family |-> family.name,
          family_id |-> family.id]

\* for link in found_links: if title and href and 'summary' in href: ...
RECURSIVE AddLinks(_, _, _, _)
AddLinks(v, family, found, family_links) ==
    IF found = <<>> THEN family_links
    ELSE LET link == Head(found)
             keep == link.title # 0 /\ link.href # NoHref
                     /\ HasSummary(link.href)
             entry == LinkEntry(v, link.title,
                                UrlJoin(base_url, link.href), family)
         IN  AddLinks(v, family, Tail(found),
                      IF keep THEN DictSet(family_links, entry)
                      ELSE family_links)

\* for selector in selectors: found_links = soup.select(selector);
\* if found_links: ...; break
RECURSIVE SelectorLoop(_, _, _, _, _)
SelectorLoop(v, family, soup, selector, tried) ==
    IF selector > NumSelectors
    THEN [tried |-> tried, used |-> 0, found |-> 0, links |-> <<>>]
    ELSE LET found_links == Select(soup, selector)
         IN  IF found_links # <<>>
             THEN [tried |-> Append(tried, selector), used |-> selector,
                   found |-> Len(found_links),
                   links |-> AddLinks(v, family, found_links, <<>>)]
             ELSE SelectorLoop(v, family, soup, selector + 1,
                               Append(tried, selector))

\* The loop without its break: every selector is evaluated and every
\* selector with matches adds its links.
RECURSIVE SelectorLoopNoBreak(_, _, _, _, _)
SelectorLoopNoBreak(v, family, soup, selector, acc) ==
    IF selector > NumSelectors THEN acc
    ELSE LET found_links == Select(soup, selector)
         IN  SelectorLoopNoBreak(v, family, soup, selector + 1,
                 IF found_links # <<>>
                 THEN [tried |-> Append(acc.tried, selector),
                       used |-> IF acc.used = 0 THEN selector ELSE acc.used,
                       found |-> IF acc.used = 0 THEN Len(found_links)
                                 ELSE acc.found,
                       links |-> AddLinks(v, family, found_links, acc.links)]
                 ELSE [acc EXCEPT !.tried = Append(@, selector)])
FamilyLinksMutNoBreak(v, family, soup) ==
    SelectorLoopNoBreak(v, family, soup, 1,
        [tried |-> <<>>, used |-> 0, found |-> 0, links |-> <<>>])
\* family_links of one fetched listing page, with the selectors evaluated
\* and the one whose matches were taken.
FamilyLinks(v, family, soup) == SelectorLoop(v, family, soup, 1, <<>>)

(* ----------------------- listing pages explored ----------------------- *)
\* n anchors titled first, first + 1, ..., all of one kind.
Block(first, n, path, in_report2) ==
    [k \in 1..n |-> Anchor(first + k - 1, path, first + k - 1, in_report2)]
\* The blocks explored, as <<first title, number of anchors>>.
BlockShapes == {<<1, 3>>, <<4, 5>>}
BlockKinds ==
    { <<"/link/summary/", TRUE>>, <<"/link/summary/", FALSE>>,
      <<"/find/summary/", FALSE>>, <<"/help/", FALSE>> }
\* What may follow a page's block: nothing, a link that only the third
\* selector matches, or an occupation link without text.
Trailers ==
    { <<>>,
      <<Anchor(9, "/find/summary/", 9, FALSE)>>,
      <<Anchor(0, "/link/summary/", 8, TRUE)>> }
Pages ==
    {Block(shape[1], shape[2], kind[1], kind[2]) \o trailer :
        shape \in BlockShapes, kind \in BlockKinds, trailer \in Trailers}
    \cup Trailers
CategorySleep == 2

(* ------------------------- bounds of the runs ------------------------- *)
\* A run over at most MaxSmallRun links meets every item input below; a
\* longer run (one that reaches a checkpoint) meets at most one item that
\* is not a plain quick success.
MaxSmallRun == 2
\* The most links a run discovers.
MaxLinks == 51
\* should_report_progress calls explored by SpecProgress.
MaxCalls == 4
\* Largest argument of a direct report_progress call.
MaxArg == 2

\* Seconds the clock may advance between two should_report_progress calls.
ClockSteps == {0, 1, 599, 600, 601}
\* Seconds between the scraper's construction and the item loop.
StartDelays == {0, 599}
\* Seconds an item takes beyond its sleeps (the requests, the parsing).
ExtraDelays == {0, 297, 598}
\* Per-attempt outcomes of an item's fetch that the runs meet.
ItemOutcomes ==
    { <<"ok", "ok", "ok">>,
      <<"timeout", "timeout", "timeout">>,
      <<"error", "error", "error">>,
      <<"timeout", "ok", "ok">>,
      <<Crash, "ok", "ok">> }
PlainOutcome == <<"ok", "ok", "ok">>
\* What a listing page's fetch meets.
ListingOutcomes ==
    {PlainOutcome, <<"timeout", "timeout", "timeout">>, <<Crash, "ok", "ok">>}

RunSizes(v) ==
    {n \in 0..MaxLinks :
        \/ n <= MaxSmallRun
        \/ n >= CheckpointEvery(v) /\ n % CheckpointEvery(v) <= 1}
HiccupCap(n) == IF n <= MaxSmallRun THEN n ELSE 1
StartDelaysOf(n) == IF n <= MaxSmallRun THEN StartDelays ELSE {0}

\* The mapping discovery returned, as the run sees it: n entries with
\* pairwise distinct titles, in insertion order.
LinksOfSize(n) == [k \in 1..n |-> [title |-> k, url |-> <<"url", k>>]]

(* ============================= Cleanup ================================ *)
\* temp_patterns, in list order.
TempPatterns(v) ==
    IF v = "final"
    THEN <<"temp_*_occupations_*.json", "temp_all_occupations_*.json">>
    ELSE <<"temp_enhanced_occupations_*.json", "temp_*_occupations_*.json">>
\* File names are <<prefix, timestamp>>, the extension left out.  The
\* names on disk that start with temp_ and continue with _occupations_:
TempPrefixes ==
    {"temp_all_occupations_", "temp_enhanced_occupations_",
     "temp_100_occupations_"}
\* fnmatch of a name against a pattern of temp_patterns.
GlobMatches(pattern, name) ==
    CASE pattern = "temp_*_occupations_*.json" -> name[1] \in TempPrefixes
      [] pattern = "temp_all_occupations_*.json" ->
             name[1] = "temp_all_occupations_"
      [] pattern = "temp_enhanced_occupations_*.json" ->
             name[1] = "temp_enhanced_occupations_"
      [] OTHER -> FALSE
\* glob.glob(pattern) over the files on disk.
Glob(fs, pattern) == {f.name : f \in {g \in fs : GlobMatches(pattern, g.name)}}

\* for pattern in temp_patterns: for file in glob.glob(pattern):
\*     try: os.remove(file); deleted_count += 1
\*     except Exception: logger.warning(...)
\* os.remove fails on the names in lk.
RECURSIVE CleanupLoop(_, _, _)
CleanupLoop(patterns, lk, acc) ==
    IF patterns = <<>> THEN acc
    ELSE LET temp_files == Glob(acc.files, Head(patterns))
             removed == temp_files \ lk
         IN  CleanupLoop(Tail(patterns), lk,
                 [acc EXCEPT
                    !.files = {f \in @ : f.name \notin removed},
                    !.attempts = Append(@, [pattern |-> Head(patterns),
                                            tried |-> temp_files,
                                            failed |-> temp_files \cap lk]),
                    !.deleted_count = @ + Cardinality(removed)])
CleanupStart(fs) ==
    [called |-> TRUE, raised |-> FALSE, disk |-> fs, files |-> fs,
     attempts |-> <<>>, deleted_count |-> 0]
\* os.remove outside any try: the first failure leaves the function, in
\* the worst case before any file was removed.
CleanupTempFilesMutNoTry(v, fs, lk) ==
    IF \E k \in 1..Len(TempPatterns(v)) :
           Glob(fs, TempPatterns(v)[k]) \cap lk # {}
    THEN [CleanupStart(fs) EXCEPT !.raised = TRUE]
    ELSE CleanupLoop(TempPatterns(v), lk, CleanupStart(fs))
\* cleanup_temp_files()
CleanupTempFiles(v, fs, lk) ==
    CleanupLoop(TempPatterns(v), lk, CleanupStart(fs))

\* Files a directory may hold when cleanup runs.
DiskFiles ==
    { [name |-> <<"temp_all_occupations_", Timestamp(100)>>, content |-> <<>>],
      [name |-> <<"temp_all_occupations_", Timestamp(200)>>, content |-> <<>>],
      [name |-> <<"temp_enhanced_occupations_", Timestamp(75)>>,
       content |-> <<>>],
      [name |-> <<"temp_100_occupations_", Timestamp(50)>>, content |-> <<>>],
      [name |-> <<"all_occupations_complete_", Timestamp(300)>>,
       content |-> <<>>] }

\* Links a run of main discovers: a few, or enough for one or two
\* checkpoints.
MainRunSizes(v) ==
    {n \in 0..MaxLinks :
        n <= MaxSmallRun \/ n \in {CheckpointEvery(v), 2 * CheckpointEvery(v)}}
\* existing_files of load_existing_data, and what they may hold: no file,
\* or a record of the first title.
ExistingFiles ==
    <<"100_occupations_20250920_000511.csv",
      "100_occupations_20250920_000659.csv">>
ExistingSets ==
    { <<>>, <<[title |-> 1, url |-> <<"csv", 1>>, extracted |-> TRUE]>> }
\* How save_final_results / save_enhanced_results ends: it returns, the
\* writing of the files raises, or the overview printed after it raises.
SaveOutcomes == {"ok", "io_error", "overview_error"}

(* ========================= Field extraction =========================== *)
\* The steps of the try block of extract_occupation_info (final) and of
\* extract_comprehensive_data (enhanced), in program order: the field a
\* step fills, whether the step is a call of an extract_*_from_page
\* method with a try/except of its own (guarded), and whether the field is
\* a list filled item by item.
InlineStep(field, is_list) ==
    [field |-> field, guarded |-> FALSE, is_list |-> is_list]
MethodStep(field, is_list) ==
    [field |-> field, guarded |-> TRUE, is_list |-> is_list]
ExSteps(v) ==
    IF v = "final"
    THEN << InlineStep("description", FALSE),
            InlineStep("technology_skills", TRUE),
            InlineStep("salary_median", FALSE),
            InlineStep("work_activities", TRUE) >>
    ELSE << InlineStep("description", FALSE),
            InlineStep("salary_median", FALSE),
            MethodStep("skills", TRUE),
            MethodStep("work_activities", TRUE),
            MethodStep("education_level", FALSE),
            MethodStep("job_growth", FALSE),
            MethodStep("work_context", TRUE),
            MethodStep("knowledge_areas", TRUE),
            MethodStep("abilities", TRUE),
            MethodStep("work_styles", TRUE),
            MethodStep("tasks", TRUE),
            MethodStep("tools_used", TRUE),
            MethodStep("work_values", TRUE),
            InlineStep("technology_skills", TRUE) >>
ExFields(v) == {ExSteps(v)[k].field : k \in 1..Len(ExSteps(v))}
\* data = {..., 'description': '', 'skills': [], ...}
EmptyData(v) == [f \in ExFields(v) |-> "empty"]

\* The steps from k on, over a page holding content for the fields in
\* page.  Step `fault` raises (0: none does); kept says whether a list
\* field had taken items when its step raised.  A guarded step that
\* raises returns what it has and the block goes on; an inline step that
\* raises leaves the block for its except clause.
RECURSIVE ExtractFrom(_, _, _, _, _, _)
ExtractFrom(v, page, fault, kept, k, data) ==
    IF k > Len(ExSteps(v)) THEN data
    ELSE LET st == ExSteps(v)[k]
             has == st.field \in page
         IN  IF fault = k
             THEN LET got == [data EXCEPT ![st.field] =
                                 IF has /\ st.is_list /\ kept
                                 THEN "partial" ELSE "empty"]
                  IN  IF st.guarded
                      THEN ExtractFrom(v, page, fault, kept, k + 1, got)
                      ELSE got
             ELSE ExtractFrom(v, page, fault, kept, k + 1,
                      [data EXCEPT ![st.field] =
                          IF has THEN "full" ELSE "empty"])
\* extract_occupation_info(soup, title) / the tail of
\* extract_comprehensive_data after a successful fetch.
ExtractInfo(v, page, fault, kept) ==
    [called |-> TRUE, raised |-> FALSE,
     data |-> ExtractFrom(v, page, fault, kept, 1, EmptyData(v))]

\* Pages explored: every choice of content for the final scraper's four
\* fields; for the enhanced one an empty page, a full page, and a page
\* with content for three fields.
ExPages(v) ==
    IF v = "final" THEN SUBSET ExFields(v)
    ELSE {{}, ExFields(v), {"description", "skills", "tasks"}}

\* Listing pages of the runs that go from discovery through the item
\* loop: three occupation links; two links only the third selector
\* matches, the second titled like a link of the first page; no link.
PipelinePages ==
    { Block(1, 3, "/link/summary/", TRUE),
      <<Anchor(9, "/find/summary/", 9, FALSE),
        Anchor(2, "/find/summary/", 2, FALSE)>>,
      <<>> }

(* ================= List extractors (enhanced scraper) ================= *)
\* Most distinct texts on a page explored.
MaxTexts == 16
\* context_keywords / style_keywords / value_keywords: ten keywords each.
NumKeywords == 10

\* Extractors that loop over elements and slice the list.
ElementKinds == {"work_activities", "abilities", "tasks"}
\* Extractors that pass the list through set().
SetKinds == {"skills", "knowledge_areas", "tools_used"}
\* Extractors that take, per keyword, the first sentence holding it.
SentenceKinds == {"work_context", "work_styles", "work_values"}
ListKinds == ElementKinds \cup SetKinds \cup SentenceKinds

\* A page element: its stripped text, and whether the text passes the
\* extractor's length and keyword conditions.
Element(text, fits) == [text |-> text, fits |-> fits]
\* A sentence of the page text: its stripped text, the keywords it
\* holds, and whether len(sentence.strip()) > 10.
Sentence(text, keywords, long) ==
    [text |-> text, keywords |-> keywords, long |-> long]

Smaller(a, b) == IF a <= b THEN a ELSE b

\* for element in elements: text = ...; if <conditions>: xs.append(text)
\* The loop raises at element `fault` (0: it does not); the except clause
\* logs, and what was appended before stays.
AppendFitting(elements, fault) ==
    LET seen == IF fault = 0 THEN elements
                ELSE SubSeq(elements, 1, Smaller(fault - 1, Len(elements)))
        fit(e) == e.fits
        kept == SelectSeq(seen, fit)
    IN  [k \in 1..Len(kept) |-> kept[k].text]

\* xs[:n]
Slice(xs, n) == SubSeq(xs, 1, Smaller(n, Len(xs)))

RECURSIVE Ascending(_)
Ascending(S) ==
    IF S = {} THEN <<>>
    ELSE LET m == CHOOSE x \in S : \A y \in S : x <= y
         IN  <<m>> \o Ascending(S \ {m})
\* list(set(xs)): the members of xs once each, in the order the set
\* yields them; two orders are explored.
SetOrders == {"ascending", "descending"}
ListOfSet(xs, order) ==
    LET asc == Ascending({xs[k] : k \in 1..Len(xs)})
        n == Len(asc)
    IN  IF order = "ascending" THEN asc
        ELSE [k \in 1..n |-> asc[n + 1 - k]]

\* for keyword in keywords: if keyword in page_text.lower():
\*     for sentence in sentences:
\*         if keyword in sentence.lower() and len(sentence.strip()) > 10:
\*             xs.append(sentence.strip()); break
RECURSIVE AppendSentences(_, _, _)
AppendSentences(sentences, kw, xs) ==
    IF kw > NumKeywords THEN xs
    ELSE LET hits == {k \in 1..Len(sentences) :
                         kw \in sentences[k].keywords /\ sentences[k].long}
         IN  AppendSentences(sentences, kw + 1,
                 IF hits = {} THEN xs
                 ELSE Append(xs, sentences[
                          CHOOSE k \in hits : \A j \in hits : k <= j].text))

\* extract_skills_from_page: return list(set(skills))
ExtractSkills(page) ==
    LET first == AppendFitting(page.elements, page.fault)
        cells == IF page.fault = 0 THEN AppendFitting(page.cells, 0)
                 ELSE <<>>
    IN  ListOfSet(first \o cells, page.order)
\* extract_work_activities_from_page: return activities[:10]
ExtractWorkActivities(page) ==
    Slice(AppendFitting(page.elements, page.fault), 10)
\* extract_abilities_from_page: return abilities[:10]
ExtractAbilities(page) ==
    Slice(AppendFitting(page.elements, page.fault), 10)
\* extract_tasks_from_page: return tasks[:10]
ExtractTasks(page) ==
    Slice(AppendFitting(page.elements, page.fault), 10)
\* extract_knowledge_areas_from_page: return list(set(knowledge))[:10]
ExtractKnowledgeAreas(page) ==
    Slice(ListOfSet(AppendFitting(page.elements, page.fault), page.order),
          10)
\* extract_tools_from_page: return list(set(tools))[:15]
ExtractTools(page) ==
    Slice(ListOfSet(AppendFitting(page.elements, page.fault), page.order),
          15)
\* extract_work_context_from_page / extract_work_styles_from_page /
\* extract_work_values_from_page: return xs[:5]; soup.get_text() raising
\* (fault # 0) leaves the list empty.
ExtractBySentence(page) ==
    IF page.fault # 0 THEN <<>>
    ELSE Slice(AppendSentences(page.sentences, 1, <<>>), 5)

ListExtractor(kind, page) ==
    CASE kind = "skills" -> ExtractSkills(page)
      [] kind = "work_activities" -> ExtractWorkActivities(page)
      [] kind = "abilities" -> ExtractAbilities(page)
      [] kind = "tasks" -> ExtractTasks(page)
      [] kind = "knowledge_areas" -> ExtractKnowledgeAreas(page)
      [] kind = "tools_used" -> ExtractTools(page)
      [] OTHER -> ExtractBySentence(page)

\* Element lists explored: an element that does not fit (when junk), n
\* fitting elements of distinct texts, and the first d texts once more.
ElementsOf(n, d, junk) ==
    (IF junk THEN <<Element(0, FALSE)>> ELSE <<>>)
    \o [k \in 1..n |-> Element(k, TRUE)]
    \o [k \in 1..d |-> Element(k, TRUE)]
\* Sentence lists explored: sentence k holds keyword k; when shared the
\* first sentence holds the second keyword too; when short the last
\* sentence is no longer than 10 characters.
SentencesOf(m, shared, short) ==
    [k \in 1..m |->
        Sentence(k, {k} \cup (IF shared /\ k = 1 THEN {2} ELSE {}),
                 ~(short /\ k = m))]
ElementPages ==
    {[elements |-> ElementsOf(n, d, junk), cells |-> cells,
      sentences |-> <<>>, fault |-> fault, order |-> order] :
        n \in 0..MaxTexts, d \in 0..1, junk \in BOOLEAN,
        cells \in {<<>>, <<Element(1, TRUE), Element(MaxTexts + 1, TRUE)>>},
        fault \in {0, 3}, order \in SetOrders}
SentencePages ==
    {[elements |-> <<>>, cells |-> <<>>,
      sentences |-> SentencesOf(m, shared, short), fault |-> fault,
      order |-> "ascending"] :
        m \in 0..NumKeywords, shared \in BOOLEAN, short \in BOOLEAN,
        fault \in {0, 1}}
\* The pages given to an extractor: cells are read by skills only, the
\* set order by the extractors that call set().
ListPages(kind) ==
    IF kind \in SentenceKinds THEN SentencePages
    ELSE {page \in ElementPages :
            /\ page.elements # <<>> \/ page.fault = 0
            /\ kind # "skills" => page.cells = <<>>
            /\ kind \notin SetKinds => page.order = "ascending"}

(* ================== Job postings search: fetch_jobs =================== *)
\* Largest min_results argument explored.
MaxMinResults == 4
\* Most results on one page explored.
MaxPageResults == 2
StatusOk == 200
\* Status codes explored: 200 and one error status.
StatusCodes == {StatusOk, 500}
Locations == {None, "where"}

\* collected_jobs = []; page = 1
FetchJobsStart(min_results, location) ==
    [pc |-> "loop", min_results |-> min_results, location |-> location,
     collected_jobs |-> <<>>, page |-> 1, requests |-> <<>>, sleeps |-> 0]
\* requests.get(url, params=params) for the current page, as logged:
\* the page of the url, params['where'] if set, and what came back.
JobsRequest(j, status, n) ==
    [page |-> j.page, where |-> j.location, status |-> status, n |-> n]
\* An empty page does not end the loop: the next page is asked for.
FetchJobsStepMutNoBreak(j, status, n) ==
    LET sent == [j EXCEPT !.requests = Append(@, JobsRequest(j, status, n))]
    IN  IF status # StatusOk
        THEN [sent EXCEPT !.pc = "returned"]
        ELSE [sent EXCEPT
                 !.collected_jobs = @ \o [k \in 1..n |-> <<j.page, k>>],
                 !.page = @ + 1,
                 !.sleeps = @ + 1]
\* One pass of the while body: the request, the two breaks, extend,
\* page += 1, time.sleep(1).  n is the length of data.get('results', []).
FetchJobsStep(j, status, n) ==
    LET sent == [j EXCEPT !.requests = Append(@, JobsRequest(j, status, n))]
    IN  IF status # StatusOk
        THEN [sent EXCEPT !.pc = "returned"]
        ELSE IF n = 0
        THEN [sent EXCEPT !.pc = "returned"]
        ELSE [sent EXCEPT
                 !.collected_jobs = @ \o [k \in 1..n |-> <<j.page, k>>],
                 !.page = @ + 1,
                 !.sleeps = @ + 1]

(* ================= BLS API client: request rate limit ================= *)
\* Clock ticks per second in the runs of the BLS client.
TicksPerSecond == 2
\* Most get_occupation_data calls on one client explored.
MaxBlsCalls == 3
\* self.requests_per_second = 0.5, as a fraction.
requests_per_second == [num |-> 1, den |-> 2]
\* min_interval = 1.0 / self.requests_per_second, in ticks.
min_interval ==
    (TicksPerSecond * requests_per_second.den) \div requests_per_second.num
\* Ticks that may pass between two calls, and within a call beyond what
\* it sleeps.
Gaps == 0..(min_interval + 1)
Lags == 0..1
BlsOutcomes == {"succeeded", "not_succeeded", "request_exception"}

\* The sleep left out.
RateLimitMutNoSleep(current_time, last, lag) ==
    [slept |-> 0, last_request_time |-> current_time + lag]
\* _rate_limit: current_time is the first time.time(); lag is the time
\* that passes beyond the sleep before the second time.time().
RateLimit(current_time, last, lag) ==
    LET time_since_last == current_time - last
        sleep_time == IF time_since_last < min_interval
                      THEN min_interval - time_since_last ELSE 0
    IN  [slept |-> sleep_time,
         last_request_time |-> current_time + sleep_time + lag]
\* __init__: self.last_request_time = 0
NewClient ==
    [made |-> TRUE, last_request_time |-> 0, times |-> <<>>,
     slept |-> <<>>, result |-> "none"]
\* get_occupation_data returns data on REQUEST_SUCCEEDED and {} on any
\* other status and on a RequestException.
BlsResult(outcome) == IF outcome = "succeeded" THEN "data" ELSE "empty"

(* =========================== idle parts =============================== *)
FetchIdle == outcomes = <<>> /\ retries = 0 /\ fetch = FetchStart
MergeIdle ==
    new_data = <<>> /\ existing_data = <<>>
    /\ merged = [done |-> FALSE, out |-> <<>>]
NoCall == [n |-> 0, time |-> 0, ret |-> FALSE]
ClockIdle ==
    /\ variant = "final" /\ now = 0 /\ start_time = 0 /\ last_report_time = 0
    /\ last_call = NoCall /\ true_calls = <<>> /\ reports = <<>>
CallIdle ==
    /\ rp_args = [current |-> 0, total |-> 0, success |-> 0, failed |-> 0]
    /\ rp_ret = [called |-> FALSE, raised |-> FALSE]
RunIdle ==
    /\ pc = "idle" /\ all_links = <<>> /\ i = 0 /\ all_data = <<>>
    /\ failed_count = 0 /\ files = {} /\ items = <<>> /\ hiccups = 0
    /\ family_idx = 0 /\ family_log = <<>>

NoSave ==
    [called |-> FALSE, written |-> FALSE, returned |-> FALSE, data |-> <<>>]
MainIdle ==
    /\ main_pc = "idle" /\ main_exit = "" /\ steps = <<>>
    /\ saved = NoSave /\ reads = {}
NoCleanup == [CleanupStart({}) EXCEPT !.called = FALSE]
CleanIdle == locked = {} /\ cleaned = NoCleanup
NoExtract == [called |-> FALSE]
ExIdle == ex_in = NoExtract /\ ex_out = NoExtract
NoJobs == [pc |-> "idle"]
NoClient == [made |-> FALSE]
ApiIdle == jobs = NoJobs /\ bls = NoClient
OthersIdle == MainIdle /\ CleanIdle /\ ExIdle /\ ApiIdle

(* ======================= SpecFetch: get_page ========================== *)
InitFetch ==
    /\ OthersIdle
    /\ outcomes \in SeqsOfLen(AttemptOutcomes, MaxRetries + 1)
    /\ retries \in 1..MaxRetries
    /\ fetch = FetchStart
    /\ MergeIdle /\ ClockIdle /\ CallIdle /\ RunIdle

CallGetPage ==
    /\ ~fetch.called
    /\ fetch' = GetPage(outcomes, retries)
    /\ UNCHANGED <<apiVars, mainVars, cleanVars, exVars, outcomes, retries,
                   mergeVars, clockVars, callVars, runVars>>

NextFetch == CallGetPage
SpecFetch == InitFetch /\ [][NextFetch]_vars

(* ==================== SpecMerge: merge_all_data ======================= *)
InitMerge ==
    /\ OthersIdle
    /\ new_data \in SeqsUpTo(Records, MaxMergeLen)
    /\ existing_data \in SeqsUpTo(Records, MaxMergeLen)
    /\ merged = [done |-> FALSE, out |-> <<>>]
    /\ FetchIdle /\ ClockIdle /\ CallIdle /\ RunIdle

CallMergeAllData ==
    /\ ~merged.done
    /\ merged' = [done |-> TRUE, out |-> MergeAllData(new_data, existing_data)]
    /\ UNCHANGED <<apiVars, mainVars, cleanVars, exVars, new_data,
                   existing_data, fetchVars, clockVars, callVars, runVars>>

NextMerge == CallMergeAllData
SpecMerge == InitMerge /\ [][NextMerge]_vars

(* ================ SpecProgress: should_report_progress ================ *)
InitProgress ==
    /\ OthersIdle
    /\ variant \in Variants
    /\ start_time = 0 /\ last_report_time = start_time /\ now = start_time
    /\ last_call = NoCall /\ true_calls = <<>> /\ reports = <<>>
    /\ FetchIdle /\ MergeIdle /\ CallIdle /\ RunIdle

\* One call of should_report_progress, d seconds after the previous one.
CallShouldReport(d) ==
    LET t == now + d
        sr == ShouldReport(t, last_report_time)
    IN  /\ last_call.n < MaxCalls
        /\ now' = t
        /\ last_report_time' = sr.last
        /\ last_call' = [n |-> last_call.n + 1, time |-> t, ret |-> sr.ret]
        /\ true_calls' = IF sr.ret THEN Append(true_calls, t) ELSE true_calls
        /\ UNCHANGED <<apiVars, mainVars, cleanVars, exVars, variant,
                       start_time, reports, fetchVars, mergeVars, callVars,
                       runVars>>

NextProgress == \E d \in ClockSteps : CallShouldReport(d)
SpecProgress == InitProgress /\ [][NextProgress]_vars

(* =================== SpecReport: report_progress ====================== *)
InitReport ==
    /\ OthersIdle
    /\ variant \in Variants
    /\ start_time = 0 /\ last_report_time = start_time
    /\ now \in {start_time + d : d \in StartDelays}
    /\ last_call = NoCall /\ true_calls = <<>> /\ reports = <<>>
    /\ rp_args \in [current : 0..MaxArg, total : 0..MaxArg,
                    success : 0..MaxArg, failed : 0..MaxArg]
    /\ rp_ret = [called |-> FALSE, raised |-> FALSE]
    /\ FetchIdle /\ MergeIdle /\ RunIdle

CallReportProgress ==
    LET rp == ReportProgress(now, rp_args.current, rp_args.total,
                             rp_args.success, rp_args.failed)
    IN  /\ ~rp_ret.called
        /\ rp_ret' = [called |-> TRUE, raised |-> rp.raised]
        /\ reports' = IF rp.raised THEN reports
                      ELSE Append(reports, [gated |-> FALSE, rep |-> rp])
        /\ UNCHANGED <<apiVars, mainVars, cleanVars, exVars, variant, now,
                       start_time, last_report_time, last_call, true_calls,
                       rp_args, fetchVars, mergeVars, runVars>>

NextReport == CallReportProgress
SpecReport == InitReport /\ [][NextReport]_vars

(* ========== SpecRun: scrape_all_occupations(_enhanced) ================ *)
InitRun ==
    /\ OthersIdle
    /\ variant \in Variants
    /\ start_time = 0 /\ last_report_time = start_time
    /\ all_links \in {LinksOfSize(n) : n \in RunSizes(variant)}
    /\ now \in {start_time + d : d \in StartDelaysOf(Len(all_links))}
    /\ last_call = NoCall /\ true_calls = <<>> /\ reports = <<>>
    /\ pc = "start"
    /\ i = 0 /\ all_data = <<>> /\ failed_count = 0
    /\ files = {} /\ items = <<>> /\ hiccups = 0
    /\ family_idx = 0 /\ family_log = <<>>
    /\ FetchIdle /\ MergeIdle /\ CallIdle

\* all_links = self.get_all_occupation_links(); if not all_links: return []
StartScrape ==
    /\ pc = "start"
    /\ pc' = IF all_links = <<>> THEN "done" ELSE "loop"
    /\ UNCHANGED <<apiVars, mainVars, cleanVars, exVars, all_links, i,
                   all_data, failed_count, files, items, hiccups, family_idx,
                   family_log, fetchVars, mergeVars, clockVars, callVars>>

\* with open(temp_file, 'w') ...: json.dump(all_data, f)
WriteCheckpoint(fs, name, content) ==
    {f \in fs : f.name # name} \cup {[name |-> name, content |-> content]}

\* One iteration of the item loop: the item's fetch meets outs, the item
\* takes extra seconds beyond its sleeps, and a checkpoint write succeeds
\* (io_ok) or raises OSError.
ScrapeItem(outs, extra, io_ok) ==
    LET total == Len(all_links)
        entry == all_links[i + 1]
        page == GetPage(outs, DefaultRetries)
        res == ExtractItem(variant, entry, page)
        upd == TryItem(res, all_data, failed_count)
        t == now + SumSeq(page.sleeps) + extra + ItemSleep(variant)
        sr == ShouldReport(t, last_report_time)
        rp == ReportProgress(t, i + 1, total, Len(upd.all_data),
                             upd.failed_count)
        reported == sr.ret /\ ~rp.raised
        checkpoint == (i + 1) % CheckpointEvery(variant) = 0
        plain == outs = PlainOutcome /\ extra = 0
    IN  /\ pc = "loop"
        /\ i < total
        /\ plain \/ hiccups < HiccupCap(total)
        /\ checkpoint \/ io_ok
        /\ i' = i + 1
        /\ all_data' = upd.all_data
        /\ failed_count' = upd.failed_count
        /\ items' = Append(items, [title |-> entry.title, outs |-> outs])
        /\ hiccups' = IF plain THEN hiccups ELSE hiccups + 1
        /\ now' = t
        /\ last_report_time' = sr.last
        /\ last_call' = [n |-> last_call.n + 1, time |-> t, ret |-> sr.ret]
        /\ true_calls' = IF sr.ret THEN Append(true_calls, t) ELSE true_calls
        /\ reports' = IF reported
                      THEN Append(reports, [gated |-> TRUE, rep |-> rp])
                      ELSE reports
        /\ files' = IF checkpoint /\ io_ok /\ ~(sr.ret /\ rp.raised)
                    THEN WriteCheckpoint(files, TempFile(variant, t),
                                         upd.all_data)
                    ELSE files
        /\ pc' = IF (sr.ret /\ rp.raised) \/ (checkpoint /\ ~io_ok)
                 THEN "raised" ELSE "loop"
        /\ UNCHANGED <<apiVars, mainVars, cleanVars, exVars, variant,
                       start_time, all_links, family_idx, family_log,
                       fetchVars, mergeVars, callVars>>

\* After the loop: the final progress report, then return all_data.
FinishScrape ==
    LET total == Len(all_links)
        rp == ReportProgress(now, total, total, Len(all_data), failed_count)
    IN  /\ pc = "loop"
        /\ i = total
        /\ reports' = IF rp.raised THEN reports
                      ELSE Append(reports, [gated |-> FALSE, rep |-> rp])
        /\ pc' = IF rp.raised THEN "raised" ELSE "done"
        /\ UNCHANGED <<apiVars, mainVars, cleanVars, exVars, variant, now,
                       start_time, last_report_time, last_call, true_calls,
                       all_links, i, all_data, failed_count, files, items,
                       hiccups, family_idx, family_log, fetchVars, mergeVars,
                       callVars>>

NextRun ==
    \/ StartScrape
    \/ \E outs \in ItemOutcomes, extra \in ExtraDelays, io_ok \in BOOLEAN :
           ScrapeItem(outs, extra, io_ok)
    \/ FinishScrape
SpecRun == InitRun /\ [][NextRun]_vars

(* ============== SpecDiscovery: get_all_occupation_links =============== *)
InitDiscovery ==
    /\ OthersIdle
    /\ variant \in Variants
    /\ start_time = 0 /\ last_report_time = start_time /\ now = start_time
    /\ last_call = NoCall /\ true_calls = <<>> /\ reports = <<>>
    /\ pc = "discover"
    /\ all_links = <<>> /\ family_idx = 0 /\ family_log = <<>>
    /\ i = 0 /\ all_data = <<>> /\ failed_count = 0
    /\ files = {} /\ items = <<>> /\ hiccups = 0
    /\ FetchIdle /\ MergeIdle /\ CallIdle

\* break in place of continue: a listing fetch that gave None ends the
\* loop over occupation_families.
DiscoverFamilyMutAbort(outs, soup) ==
    LET family == occupation_families[family_idx + 1]
        page == GetPage(outs, DefaultRetries)
        fetched == ~page.raised /\ page.result # None
        got == FamilyLinks(variant, family, soup)
    IN  /\ pc = "discover"
        /\ family_idx < Len(occupation_families)
        /\ fetched \/ soup = <<>>
        /\ family_idx' = IF fetched \/ page.raised THEN family_idx + 1
                         ELSE Len(occupation_families)
        /\ family_log' = Append(family_log,
               IF fetched
               THEN [family_id |-> family.id, outs |-> outs,
                     fetched |-> TRUE, soup |-> soup, tried |-> got.tried,
                     used |-> got.used, found |-> got.found,
                     links |-> got.links]
               ELSE [family_id |-> family.id, outs |-> outs,
                     fetched |-> FALSE, soup |-> <<>>, tried |-> <<>>,
                     used |-> 0, found |-> 0, links |-> <<>>])
        /\ all_links' = IF fetched THEN DictUpdate(all_links, got.links)
                        ELSE all_links
        /\ now' = now + SumSeq(page.sleeps)
                      + (IF fetched THEN CategorySleep ELSE 0)
        /\ pc' = IF page.raised THEN "raised" ELSE "discover"
        /\ UNCHANGED <<apiVars, mainVars, cleanVars, exVars, variant,
                       start_time, last_report_time, last_call, true_calls,
                       reports, i, all_data, failed_count, files, items,
                       hiccups, fetchVars, mergeVars, callVars>>
\* One iteration of the loop over occupation_families: the listing fetch
\* meets outs and, when it succeeds, gives the page soup.
DiscoverFamily(outs, soup) ==
    LET family == occupation_families[family_idx + 1]
        page == GetPage(outs, DefaultRetries)
        fetched == ~page.raised /\ page.result # None
        got == FamilyLinks(variant, family, soup)
    IN  /\ pc = "discover"
        /\ family_idx < Len(occupation_families)
        /\ fetched \/ soup = <<>>
        /\ family_idx' = family_idx + 1
        /\ family_log' = Append(family_log,
               IF fetched
               THEN [family_id |-> family.id, outs |-> outs,
                     fetched |-> TRUE, soup |-> soup, tried |-> got.tried,
                     used |-> got.used, found |-> got.found,
                     links |-> got.links]
               ELSE [family_id |-> family.id, outs |-> outs,
                     fetched |-> FALSE, soup |-> <<>>, tried |-> <<>>,
                     used |-> 0, found |-> 0, links |-> <<>>])
        /\ all_links' = IF fetched THEN DictUpdate(all_links, got.links)
                        ELSE all_links
        /\ now' = now + SumSeq(page.sleeps)
                      + (IF fetched THEN CategorySleep ELSE 0)
        /\ pc' = IF page.raised THEN "raised" ELSE "discover"
        /\ UNCHANGED <<apiVars, mainVars, cleanVars, exVars, variant,
                       start_time, last_report_time, last_call, true_calls,
                       reports, i, all_data, failed_count, files, items,
                       hiccups, fetchVars, mergeVars, callVars>>

\* return all_links
ReturnLinks ==
    /\ pc = "discover"
    /\ family_idx = Len(occupation_families)
    /\ pc' = "discovered"
    /\ UNCHANGED <<apiVars, mainVars, cleanVars, exVars, all_links, family_idx,
                   family_log, i, all_data, failed_count, files, items,
                   hiccups, fetchVars, mergeVars, clockVars, callVars>>

NextDiscovery ==
    \/ \E outs \in ListingOutcomes, soup \in Pages : DiscoverFamily(outs, soup)
    \/ ReturnLinks
SpecDiscovery == InitDiscovery /\ [][NextDiscovery]_vars

(* ================== SpecCleanup: cleanup_temp_files =================== *)
InitCleanup ==
    /\ variant \in Variants
    /\ files \in SUBSET DiskFiles
    /\ locked \in SUBSET {f.name : f \in files}
    /\ cleaned = NoCleanup
    /\ now = 0 /\ start_time = 0 /\ last_report_time = 0
    /\ last_call = NoCall /\ true_calls = <<>> /\ reports = <<>>
    /\ pc = "idle" /\ all_links = <<>> /\ i = 0 /\ all_data = <<>>
    /\ failed_count = 0 /\ items = <<>> /\ hiccups = 0
    /\ family_idx = 0 /\ family_log = <<>>
    /\ FetchIdle /\ MergeIdle /\ CallIdle /\ MainIdle /\ ExIdle
    /\ ApiIdle

CallCleanup ==
    LET c == CleanupTempFiles(variant, files, locked)
    IN  /\ ~cleaned.called
        /\ cleaned' = c
        /\ files' = c.files
        /\ UNCHANGED <<apiVars, mainVars, exVars, locked, fetchVars, mergeVars,
                       clockVars, callVars, pc, all_links, i, all_data,
                       failed_count, items, hiccups, family_idx, family_log>>

NextCleanup == CallCleanup
SpecCleanup == InitCleanup /\ [][NextCleanup]_vars

\* Names of the checkpoint files on disk.
FileNames == {f.name : f \in files}

(* ========================== SpecMain: main ============================ *)
InitMain ==
    /\ variant \in Variants
    /\ start_time = 0 /\ last_report_time = start_time /\ now = start_time
    /\ all_links \in {LinksOfSize(n) : n \in MainRunSizes(variant)}
    /\ last_call = NoCall /\ true_calls = <<>> /\ reports = <<>>
    /\ pc = "idle"
    /\ i = 0 /\ all_data = <<>> /\ failed_count = 0
    /\ files = {} /\ items = <<>> /\ hiccups = 0
    /\ family_idx = 0 /\ family_log = <<>>
    /\ main_pc = "begin" /\ main_exit = "" /\ steps = <<>>
    /\ saved = NoSave /\ reads = {}
    /\ FetchIdle /\ MergeIdle /\ CallIdle /\ CleanIdle /\ ExIdle
    /\ ApiIdle

\* scraper = ...(); existing_data = scraper.load_existing_data() (final
\* scraper only), up to the call of scrape_all_occupations(_enhanced).
MainBegin(data) ==
    /\ main_pc = "begin"
    /\ variant = "enhanced" => data = <<>>
    /\ existing_data' = data
    /\ reads' = IF data = <<>> THEN {} ELSE {ExistingFiles[1]}
    /\ steps' = IF variant = "final" THEN <<"load_existing_data">> ELSE <<>>
    /\ main_pc' = "scrape"
    /\ pc' = "start"
    /\ UNCHANGED <<apiVars, main_exit, saved, cleanVars, exVars, fetchVars,
                   new_data, merged, clockVars, callVars, all_links, i,
                   all_data, failed_count, files, items, hiccups, family_idx,
                   family_log>>

\* The "if not new_data: return" left out: main goes on with no records.
ScrapeReturnsMutNoCheck ==
    /\ main_pc = "scrape" /\ pc = "done"
    /\ new_data' = all_data
    /\ steps' = Append(steps, "scrape_all_occupations")
    /\ main_pc' = IF variant = "final" THEN "merge" ELSE "save"
    /\ main_exit' = main_exit
    /\ UNCHANGED <<apiVars, saved, reads, cleanVars, exVars, fetchVars,
                   existing_data, merged, clockVars, callVars, runVars>>

\* new_data = scraper.scrape_all_occupations(); if not new_data: return
ScrapeReturns ==
    /\ main_pc = "scrape" /\ pc = "done"
    /\ new_data' = all_data
    /\ steps' = Append(steps, "scrape_all_occupations")
    /\ main_pc' = IF all_data = <<>> THEN "exit"
                  ELSE IF variant = "final" THEN "merge" ELSE "save"
    /\ main_exit' = IF all_data = <<>> THEN "failed" ELSE main_exit
    /\ UNCHANGED <<apiVars, saved, reads, cleanVars, exVars, fetchVars,
                   existing_data, merged, clockVars, callVars, runVars>>

\* except Exception as e: print(...); logger.error(...)
ScrapeRaises ==
    /\ main_pc = "scrape" /\ pc = "raised"
    /\ main_pc' = "exit"
    /\ main_exit' = "error"
    /\ UNCHANGED <<apiVars, steps, saved, reads, cleanVars, exVars, fetchVars,
                   mergeVars, clockVars, callVars, runVars>>

\* all_data = scraper.merge_all_data(new_data, existing_data)
MainMerge ==
    /\ main_pc = "merge"
    /\ merged' = [done |-> TRUE, out |-> MergeAllData(new_data, existing_data)]
    /\ steps' = Append(steps, "merge_all_data")
    /\ main_pc' = "save"
    /\ UNCHANGED <<apiVars, main_exit, saved, reads, cleanVars, exVars,
                   fetchVars, new_data, existing_data, clockVars, callVars,
                   runVars>>

\* The save wrapped in a try that swallows its error: cleanup follows
\* whatever the save did.
MainSaveMutIgnoreError(outcome) ==
    LET data == IF variant = "final" THEN merged.out ELSE new_data
        written == outcome # "io_error"
    IN  /\ main_pc = "save"
        /\ saved' = [called |-> TRUE, written |-> written,
                     returned |-> outcome = "ok",
                     data |-> IF written THEN data ELSE <<>>]
        /\ steps' = IF outcome = "ok" THEN Append(steps, "save_final_results")
                    ELSE steps
        /\ main_pc' = "cleanup"
        /\ main_exit' = main_exit
        /\ UNCHANGED <<apiVars, reads, cleanVars, exVars, fetchVars, mergeVars,
                       clockVars, callVars, runVars>>
\* csv_file, json_file = scraper.save_final_results(all_data)
MainSave(outcome) ==
    LET data == IF variant = "final" THEN merged.out ELSE new_data
        written == outcome # "io_error"
    IN  /\ main_pc = "save"
        /\ saved' = [called |-> TRUE, written |-> written,
                     returned |-> outcome = "ok",
                     data |-> IF written THEN data ELSE <<>>]
        /\ steps' = IF outcome = "ok" THEN Append(steps, "save_final_results")
                    ELSE steps
        /\ main_pc' = IF outcome = "ok" THEN "cleanup" ELSE "exit"
        /\ main_exit' = IF outcome = "ok" THEN main_exit ELSE "error"
        /\ UNCHANGED <<apiVars, reads, cleanVars, exVars, fetchVars, mergeVars,
                       clockVars, callVars, runVars>>

\* scraper.cleanup_temp_files(), then the closing prints.
MainCleanup(lk) ==
    LET c == CleanupTempFiles(variant, files, lk)
    IN  /\ main_pc = "cleanup"
        /\ lk \subseteq {f.name : f \in files}
        /\ locked' = lk
        /\ cleaned' = c
        /\ files' = c.files
        /\ steps' = Append(steps, "cleanup_temp_files")
        /\ main_pc' = "exit"
        /\ main_exit' = "completed"
        /\ UNCHANGED <<apiVars, saved, reads, exVars, fetchVars, mergeVars,
                       clockVars, callVars, pc, all_links, i, all_data,
                       failed_count, items, hiccups, family_idx, family_log>>

\* KeyboardInterrupt, raised wherever main is: no except Exception
\* catches it; except KeyboardInterrupt: print(...)
Interrupt ==
    /\ main_pc \in {"begin", "scrape", "merge", "save", "cleanup"}
    /\ main_pc' = "exit"
    /\ main_exit' = "interrupted"
    /\ pc' = IF pc \in {"start", "loop"} THEN "interrupted" ELSE pc
    /\ UNCHANGED <<apiVars, steps, saved, reads, cleanVars, exVars, fetchVars,
                   mergeVars, clockVars, callVars, all_links, i, all_data,
                   failed_count, files, items, hiccups, family_idx,
                   family_log>>

NextMain ==
    \/ \E data \in ExistingSets : MainBegin(data)
    \/ NextRun
    \/ ScrapeReturns
    \/ ScrapeRaises
    \/ MainMerge
    \/ \E outcome \in SaveOutcomes : MainSave(outcome)
    \/ \E lk \in SUBSET FileNames : MainCleanup(lk)
    \/ Interrupt
SpecMain == InitMain /\ [][NextMain]_vars

(* ============ SpecExtract: extract_occupation_info ==================== *)
InitExtract ==
    /\ variant \in Variants
    /\ ex_in \in {[called |-> FALSE, page |-> page, fault |-> fault,
                    kept |-> kept] :
                      page \in ExPages(variant),
                      fault \in 0..Len(ExSteps(variant)),
                      kept \in BOOLEAN}
    /\ ex_out = NoExtract
    /\ now = 0 /\ start_time = 0 /\ last_report_time = 0
    /\ last_call = NoCall /\ true_calls = <<>> /\ reports = <<>>
    /\ FetchIdle /\ MergeIdle /\ CallIdle /\ RunIdle /\ MainIdle /\ CleanIdle
    /\ ApiIdle

CallExtract ==
    /\ ~ex_out.called
    /\ ex_out' = ExtractInfo(variant, ex_in.page, ex_in.fault, ex_in.kept)
    /\ UNCHANGED <<apiVars, ex_in, mainVars, cleanVars, fetchVars, mergeVars,
                   clockVars, callVars, runVars>>

NextExtract == CallExtract
SpecExtract == InitExtract /\ [][NextExtract]_vars

(* ======= SpecPipeline: discovery followed by the item loop ============ *)
InitPipeline == InitDiscovery

\* all_links = self.get_all_occupation_links(), as the call returns.
LinksReturned ==
    /\ pc = "discovered"
    /\ pc' = "start"
    /\ UNCHANGED <<apiVars, mainVars, cleanVars, exVars, all_links, i,
                   all_data, failed_count, files, items, hiccups, family_idx,
                   family_log, fetchVars, mergeVars, clockVars, callVars>>

NextPipeline ==
    \/ \E outs \in ListingOutcomes, soup \in PipelinePages :
           DiscoverFamily(outs, soup)
    \/ ReturnLinks
    \/ LinksReturned
    \/ NextRun
SpecPipeline == InitPipeline /\ [][NextPipeline]_vars

(* ============== SpecLists: the enhanced list extractors =============== *)
InitLists ==
    /\ variant = "enhanced"
    /\ \E kind \in ListKinds : \E page \in ListPages(kind) :
          ex_in = [called |-> FALSE, kind |-> kind, page |-> page]
    /\ ex_out = NoExtract
    /\ now = 0 /\ start_time = 0 /\ last_report_time = 0
    /\ last_call = NoCall /\ true_calls = <<>> /\ reports = <<>>
    /\ FetchIdle /\ MergeIdle /\ CallIdle /\ RunIdle /\ MainIdle /\ CleanIdle
    /\ ApiIdle

\* data[kind] = self.extract_<kind>_from_page(soup)
CallListExtractor ==
    /\ ~ex_out.called
    /\ ex_out' = [called |-> TRUE,
                  list |-> ListExtractor(ex_in.kind, ex_in.page)]
    /\ UNCHANGED <<apiVars, ex_in, mainVars, cleanVars, fetchVars, mergeVars,
                   clockVars, callVars, runVars>>

NextLists == CallListExtractor
SpecLists == InitLists /\ [][NextLists]_vars

(* ===================== SpecJobs: fetch_jobs =========================== *)
InitJobs ==
    /\ variant = "final"
    /\ jobs \in {FetchJobsStart(m, loc) :
                    m \in 0..MaxMinResults, loc \in Locations}
    /\ bls = NoClient
    /\ now = 0 /\ start_time = 0 /\ last_report_time = 0
    /\ last_call = NoCall /\ true_calls = <<>> /\ reports = <<>>
    /\ FetchIdle /\ MergeIdle /\ CallIdle /\ RunIdle
    /\ MainIdle /\ CleanIdle /\ ExIdle

\* while len(collected_jobs) < min_results: one pass of the body.
RequestPage(status, n) ==
    /\ jobs.pc = "loop"
    /\ Len(jobs.collected_jobs) < jobs.min_results
    /\ jobs' = FetchJobsStep(jobs, status, n)
    /\ UNCHANGED <<bls, mainVars, cleanVars, exVars, fetchVars, mergeVars,
                   clockVars, callVars, runVars>>

\* requests.get or response.json() raises: the call ends by the
\* exception.
RequestRaises ==
    /\ jobs.pc = "loop"
    /\ Len(jobs.collected_jobs) < jobs.min_results
    /\ jobs' = [jobs EXCEPT
                   !.requests = Append(@, JobsRequest(jobs, "raised", 0)),
                   !.pc = "raised"]
    /\ UNCHANGED <<bls, mainVars, cleanVars, exVars, fetchVars, mergeVars,
                   clockVars, callVars, runVars>>

\* The while condition is false: return collected_jobs.
ReturnJobs ==
    /\ jobs.pc = "loop"
    /\ Len(jobs.collected_jobs) >= jobs.min_results
    /\ jobs' = [jobs EXCEPT !.pc = "returned"]
    /\ UNCHANGED <<bls, mainVars, cleanVars, exVars, fetchVars, mergeVars,
                   clockVars, callVars, runVars>>

NextJobs ==
    \/ \E status \in StatusCodes, n \in 0..MaxPageResults :
          RequestPage(status, n)
    \/ RequestRaises
    \/ ReturnJobs
SpecJobs == InitJobs /\ [][NextJobs]_vars

(* ============ SpecBls: get_occupation_data on one client ============== *)
InitBls ==
    /\ variant = "enhanced"
    /\ bls = NewClient
    /\ jobs = NoJobs
    /\ now \in Gaps
    /\ start_time = 0 /\ last_report_time = 0
    /\ last_call = NoCall /\ true_calls = <<>> /\ reports = <<>>
    /\ FetchIdle /\ MergeIdle /\ CallIdle /\ RunIdle
    /\ MainIdle /\ CleanIdle /\ ExIdle

\* get_occupation_data, called gap ticks after the last thing that
\* happened: _rate_limit, then the request, which takes took ticks.
GetOccupationData(gap, lag, took, outcome) ==
    LET rl == RateLimit(now + gap, bls.last_request_time, lag)
    IN  /\ bls.made
        /\ Len(bls.times) < MaxBlsCalls
        /\ bls' = [bls EXCEPT
                      !.last_request_time = rl.last_request_time,
                      !.times = Append(@, rl.last_request_time),
                      !.slept = Append(@, rl.slept),
                      !.result = BlsResult(outcome)]
        /\ now' = rl.last_request_time + took
        /\ UNCHANGED <<jobs, mainVars, cleanVars, exVars, fetchVars,
                       mergeVars, variant, start_time, last_report_time,
                       last_call, true_calls, reports, callVars, runVars>>

NextBls ==
    \E gap \in Gaps, lag \in Lags, took \in Lags, outcome \in BlsOutcomes :
        GetOccupationData(gap, lag, took, outcome)
SpecBls == InitBls /\ [][NextBls]_vars

(* ============================== Claims ================================ *)
\* Position of the first successful attempt among the first n, or 0.
FirstOk(outs, n) ==
    IF \E k \in 1..n : outs[k] = "ok"
    THEN CHOOSE k \in 1..n :
             outs[k] = "ok" /\ \A j \in 1..(k - 1) : outs[j] # "ok"
    ELSE 0

\* C1: whatever the attempts meet (success, timeout, other request
\* failure), get_page issues at most `retries` requests (3 by default),
\* none after the first success, and returns None without raising when
\* every attempt failed.
C1_GetPageBounded ==
    fetch.called =>
        LET k == FirstOk(outcomes, retries)
        IN  /\ fetch.requests <= retries
            /\ retries = DefaultRetries => fetch.requests <= 3
            /\ ~fetch.raised
            /\ k > 0 => fetch.requests = k /\ fetch.result = Soup
            /\ k = 0 => fetch.result = None
C1_Witness ==
    /\ fetch.called
    /\ retries = DefaultRetries
    /\ outcomes[1] = "timeout" /\ outcomes[2] = "error"
    /\ outcomes[3] = "timeout"
    /\ fetch.requests = 3
    /\ fetch.result = None

HasTitle(data, t) == \E k \in 1..Len(data) : data[k].title = t
FirstWith(data, t) == data[CHOOSE k \in 1..Len(data) :
    data[k].title = t /\ \A j \in 1..(k - 1) : data[j].title # t]
\* The records of data that no earlier record shares the title of.
RECURSIVE FirstOccurrences(_, _)
FirstOccurrences(data, k) ==
    IF k > Len(data) THEN <<>>
    ELSE (IF \A j \in 1..(k - 1) : data[j].title # data[k].title
          THEN <<data[k]>> ELSE <<>>) \o FirstOccurrences(data, k + 1)
RecX100 == [title |-> "X", salary |-> 100]
RecX200 == [title |-> "X", salary |-> 200]
RecY50 == [title |-> "Y", salary |-> 50]

\* C2: merge_all_data keeps, for each title, the first record of
\* existing_data + new_data; a title present in both inputs keeps its
\* existing record; [X:100] merged with [X:200, Y:50] is [X:100, Y:50].
C2_ExistingWins ==
    merged.done =>
        /\ merged.out = FirstOccurrences(existing_data \o new_data, 1)
        /\ \A t \in Titles :
              HasTitle(existing_data, t) /\ HasTitle(new_data, t) =>
                  /\ HasTitle(merged.out, t)
                  /\ FirstWith(merged.out, t) = FirstWith(existing_data, t)
        /\ (existing_data = <<RecX100>> /\ new_data = <<RecX200, RecY50>>)
              => merged.out = <<RecX100, RecY50>>
C2_Witness ==
    /\ merged.done
    /\ existing_data = <<RecX100>>
    /\ new_data = <<RecX200, RecY50>>
    /\ merged.out = <<RecX100, RecY50>>

DistinctTitles(data) ==
    \A j, k \in 1..Len(data) : j # k => data[j].title # data[k].title

\* C3: merging a collection of pairwise distinct titles with itself gives
\* it back, same records in the same order; every output of merge_all_data
\* is such a collection.
C3_MergeIdempotent ==
    merged.done =>
        /\ (new_data = existing_data /\ DistinctTitles(new_data))
              => merged.out = new_data
        /\ DistinctTitles(merged.out)
        /\ MergeAllData(merged.out, merged.out) = merged.out
C3_Witness ==
    /\ merged.done
    /\ new_data = existing_data
    /\ Len(new_data) = 2
    /\ DistinctTitles(new_data)
    /\ merged.out = new_data


\* C4: when the item loop has ended over N links, the checkpoint files on
\* disk, told apart by their timestamped names, number N div K (K = 50 in
\* the final scraper, 25 in the enhanced one); after i items, i div K.
C4_CheckpointCadence ==
    pc \in {"loop", "done"} =>
        Cardinality(FileNames) = i \div CheckpointEvery(variant)
C4_Witness ==
    /\ pc = "done"
    /\ variant = "enhanced"
    /\ Len(all_links) = 51
    /\ Cardinality(FileNames) = 2

AllTimeouts == <<"timeout", "timeout", "timeout">>
LastItem(log) == log[Len(log)]
\* Items whose fetch met outs in `kinds`.
ItemsWith(kinds) == {k \in 1..Len(items) : items[k].outs \in kinds}

\* C5: in scrape_all_occupations an item whose fetch timed out on all 3
\* attempts adds 1 to failed_count in its iteration and no record, and
\* the result list never holds a record of its title.
C5_State ==
    variant = "final" =>
        \A k \in ItemsWith({AllTimeouts}) :
            ~HasTitle(all_data, items[k].title)
C5_Step ==
    (variant = "final" /\ Len(items') = Len(items) + 1
       /\ LastItem(items').outs = AllTimeouts)
    => (failed_count' = failed_count + 1 /\ all_data' = all_data)
\* C5: both parts, in every state and every step of a run.
C5_TimedOutItemFails == [](C5_State) /\ [][C5_Step]_vars
C5_Witness ==
    /\ variant = "final"
    /\ pc = "done"
    /\ Len(all_links) = 2
    /\ items[1].outs = AllTimeouts
    /\ items[2].outs = PlainOutcome
    /\ failed_count = 1
    /\ Len(all_data) = 1

FetchFails(outs) ==
    LET page == GetPage(outs, DefaultRetries)
    IN  ~page.raised /\ page.result = None

\* C6: in the enhanced scraper an item whose page fetch failed after all
\* retries is counted as a failure and has no record in all_data.
C6_FetchFailureCounted ==
    variant = "enhanced" =>
        LET failing == {k \in 1..Len(items) : FetchFails(items[k].outs)}
        IN  /\ \A k \in failing : ~HasTitle(all_data, items[k].title)
            /\ failed_count >= Cardinality(failing)

\* C7: two should_report_progress calls that return True are at least 600
\* seconds apart, the first is at least 600 seconds after start_time, and
\* last_report_time never decreases and changes only in a call that
\* returns True.
C7_State ==
    /\ \A k \in 1..Len(true_calls) :
          true_calls[k] - (IF k = 1 THEN start_time ELSE true_calls[k - 1])
              >= 600
C7_Step ==
    /\ last_report_time' >= last_report_time
    /\ last_report_time' # last_report_time =>
          /\ last_call'.n = last_call.n + 1
          /\ last_call'.ret
          /\ last_report_time' = last_call'.time
\* C7: the spacing in every state, the gate in every step.
C7_ReportGate == [](C7_State) /\ [][C7_Step]_vars
C7_Witness ==
    /\ Len(true_calls) = 2
    /\ true_calls[1] = 600
    /\ true_calls[2] = 1200
    /\ last_call.n = 4
    /\ ~last_call.ret
    /\ last_report_time = 1200

Spaced(ks) ==
    \A a, b \in ks :
        a < b => reports[b].rep.time - reports[a].rep.time >= 600

\* C8 as stated: no two progress reports of a run, the final report after
\* the loop included, are less than 600 seconds apart.
C8_AllReportsSpaced == Spaced(1..Len(reports))
\* C8: no two progress reports emitted inside the item loop are less than
\* 600 seconds apart; the final report after the loop is emitted whatever
\* the time since the last one.
C8_LoopReportsSpaced ==
    /\ Spaced({k \in 1..Len(reports) : reports[k].gated})
    /\ (pc = "done" /\ all_links # <<>>) =>
          /\ reports # <<>>
          /\ ~LastItem(reports).gated
          /\ LastItem(reports).rep.time = now
C8_Witness ==
    /\ pc = "done"
    /\ Len(reports) = 3
    /\ reports[1].gated /\ reports[2].gated /\ ~reports[3].gated
    /\ reports[2].rep.time - reports[1].rep.time = 600
    /\ reports[3].rep.time - reports[2].rep.time < 600

\* C9: report_progress returns without raising for all non-negative
\* integer arguments.
C9_ReportNeverRaises == rp_ret.called => ~rp_ret.raised

\* The first selector, in list order, with a match on the page (0: none).
FirstMatching(soup) ==
    IF \E s \in 1..NumSelectors : Select(soup, s) # <<>>
    THEN CHOOSE s \in 1..NumSelectors :
             /\ Select(soup, s) # <<>>
             /\ \A r \in 1..(s - 1) : Select(soup, r) = <<>>
    ELSE 0
ValidLink(a) == a.title # 0 /\ a.href # NoHref /\ HasSummary(a.href)
ValidTitles(found) ==
    {found[k].title : k \in {j \in 1..Len(found) : ValidLink(found[j])}}
TitlesOf(links) == {links[k].title : k \in 1..Len(links)}
AllValidDistinct(found) ==
    /\ \A k \in 1..Len(found) : ValidLink(found[k])
    /\ \A j, k \in 1..Len(found) : j # k => found[j].title # found[k].title

\* C10, for each visited category: the selectors are evaluated in list
\* order starting from the first, up to and including the first one with
\* a match and no further, and the category's links are the valid links
\* among that selector's matches.
C10_FirstMatchOnly ==
    \A f \in 1..Len(family_log) :
        LET e == family_log[f]
            s == FirstMatching(e.soup)
        IN  e.fetched =>
              /\ e.used = s
              /\ e.tried = [k \in 1..(IF s = 0 THEN NumSelectors ELSE s) |-> k]
              /\ s = 0 => e.links = <<>>
              /\ s > 0 =>
                    /\ e.found = Len(Select(e.soup, s))
                    /\ TitlesOf(e.links) = ValidTitles(Select(e.soup, s))
                    /\ \A k \in 1..Len(e.links) :
                          \E a \in 1..Len(e.soup) :
                              /\ Matches(e.soup[a], s)
                              /\ e.soup[a].title = e.links[k].title
                              /\ e.links[k].url
                                     = UrlJoin(base_url, e.soup[a].href)
\* C10, the scenario: category A has no match for selector 1 and 3 for a
\* later selector, category B has 5 for selector 1, all titles distinct
\* and valid: 8 links, B's from selector 1.
C10_Scenario ==
    (/\ Len(family_log) = 2
     /\ family_log[1].fetched /\ family_log[2].fetched
     /\ Select(family_log[1].soup, 1) = <<>>
     /\ \E s \in 2..NumSelectors :
           /\ FirstMatching(family_log[1].soup) = s
           /\ Len(Select(family_log[1].soup, s)) = 3
           /\ AllValidDistinct(Select(family_log[1].soup, s)
                               \o Select(family_log[2].soup, 1))
     /\ Len(Select(family_log[2].soup, 1)) = 5)
    => /\ Len(all_links) = 8
       /\ family_log[2].used = 1
       /\ family_log[2].tried = <<1>>
       /\ TitlesOf(family_log[2].links)
              = ValidTitles(Select(family_log[2].soup, 1))
\* C10: the rule for every category, and the scenario.
C10_SelectorFallback == C10_FirstMatchOnly /\ C10_Scenario
C10_Witness ==
    /\ pc = "discovered"
    /\ Len(family_log) = 2
    /\ family_log[1].fetched /\ family_log[2].fetched
    /\ family_log[1].tried = <<1, 2, 3>>
    /\ family_log[1].used = 3 /\ family_log[1].found = 3
    /\ family_log[2].tried = <<1>>
    /\ family_log[2].used = 1 /\ family_log[2].found = 5
    /\ Len(family_log[2].soup) = 6
    /\ Len(all_links) = 8

\* The listing fetch of a logged category gave None after its retries.
ListingFailed(e) == ~e.fetched /\ FetchFails(e.outs)

\* C11: a category whose listing fetch gave None adds no link and the
\* loop goes on to the next row; when discovery returns, every row of
\* occupation_families has been requested exactly once, in order.
C11_State ==
    /\ Len(family_log) = family_idx
    /\ \A f \in 1..Len(family_log) :
          /\ family_log[f].family_id = occupation_families[f].id
          /\ ListingFailed(family_log[f]) => family_log[f].links = <<>>
    /\ pc = "discovered" => Len(family_log) = Len(occupation_families)
C11_Step ==
    (Len(family_log') = Len(family_log) + 1
       /\ ListingFailed(LastItem(family_log')))
    => /\ all_links' = all_links
       /\ family_idx' = family_idx + 1
       /\ pc' = "discover"
\* C11: the state part in every state, the step part in every step.
C11_FailedCategorySkipped == [](C11_State) /\ [][C11_Step]_vars
C11_Witness ==
    /\ pc = "discovered"
    /\ Len(family_log) = 2
    /\ ListingFailed(family_log[1])
    /\ family_log[2].fetched
    /\ Len(all_links) = 5
    /\ TitlesOf(all_links) = TitlesOf(family_log[2].links)

\* Rows visited so far whose links hold title t.
ListedBy(t) ==
    {f \in 1..Len(family_log) : t \in TitlesOf(family_log[f].links)}
Max(S) == CHOOSE x \in S : \A y \in S : y <= x

\* C12: the mapping holds one entry per distinct title found, and the
\* entry of a title is the one of the last category, in iteration order,
\* that listed it: its URL and, in the enhanced scraper, its family name
\* and id.
C12_LastCategoryWins ==
    /\ DistinctTitles(all_links)
    /\ TitlesOf(all_links)
           = UNION {TitlesOf(family_log[f].links) :
                        f \in 1..Len(family_log)}
    /\ \A k \in 1..Len(all_links) :
          LET last == family_log[Max(ListedBy(all_links[k].title))]
          IN  /\ \E j \in 1..Len(last.links) : last.links[j] = all_links[k]
              /\ variant = "enhanced" =>
                    all_links[k].family_id = last.family_id
C12_Witness ==
    /\ pc = "discovered"
    /\ variant = "enhanced"
    /\ Len(family_log) = 2
    /\ family_log[1].used = 1 /\ family_log[2].used = 3
    /\ TitlesOf(family_log[1].links) = {1, 2, 3}
    /\ TitlesOf(family_log[2].links) = {1, 2, 3, 9}
    /\ Len(all_links) = 4
    /\ all_links[1].title = 1
    /\ all_links[1].family_id = occupation_families[2].id
    /\ all_links[1].url.href.path = "/find/summary/"

\* Names on disk that some pattern of the variant's temp_patterns matches.
Matching(v, fs) ==
    UNION {Glob(fs, TempPatterns(v)[k]) : k \in 1..Len(TempPatterns(v))}
Attempted == UNION {cleaned.attempts[k].tried : k \in 1..Len(cleaned.attempts)}
FailedOn == UNION {cleaned.attempts[k].failed : k \in 1..Len(cleaned.attempts)}

\* C15: cleanup_temp_files tries os.remove on every file its patterns
\* match, a failure on one file stops neither the other removals nor the
\* function, the files left that match a pattern are those a removal
\* failed on (none when none failed), and no other file is touched.
C15_CleanupBestEffort ==
    cleaned.called =>
        /\ ~cleaned.raised
        /\ Attempted = Matching(variant, cleaned.disk)
        /\ FailedOn = Attempted \cap locked
        /\ files = {f \in cleaned.disk : f.name \notin Attempted \ locked}
        /\ FailedOn = {} => Matching(variant, files) = {}
        /\ cleaned.deleted_count = Cardinality(Attempted \ locked)
C15_Witness ==
    /\ cleaned.called
    /\ variant = "final"
    /\ Cardinality(Attempted) = 4
    /\ Cardinality(FailedOn) = 1
    /\ cleaned.deleted_count = 3
    /\ Cardinality(files) = 2

\* C13: a KeyboardInterrupt raised while items are being scraped is
\* caught in main and the records collected so far are saved before the
\* program exits.
C13_InterruptSaves ==
    (main_exit = "interrupted" /\ pc = "interrupted" /\ all_data # <<>>)
    => saved.written

\* The item loop was left by an error of a checkpoint write.
CheckpointWriteFailed ==
    /\ pc = "raised"
    /\ i > 0 /\ i % CheckpointEvery(variant) = 0
    /\ Cardinality(FileNames) < i \div CheckpointEvery(variant)

\* C14: an I/O error of a checkpoint write does not end the item loop,
\* and the run still reaches its final save.
C14_CheckpointErrorNonFatal ==
    /\ ~CheckpointWriteFailed
    /\ (main_pc = "exit" /\ main_exit \notin {"interrupted", "failed"}) =>
          saved.called

\* The calls of main, in program order.
Pipeline(v) ==
    IF v = "final"
    THEN <<"load_existing_data", "scrape_all_occupations", "merge_all_data",
           "save_final_results", "cleanup_temp_files">>
    ELSE <<"scrape_all_occupations", "save_final_results",
           "cleanup_temp_files">>
IsPrefix(a, b) == Len(a) <= Len(b) /\ a = SubSeq(b, 1, Len(a))
InSteps(name) == \E k \in 1..Len(steps) : steps[k] = name

\* C16: main's calls return in the order load, scrape (discovery, then
\* the item loop), merge (final scraper), final save, cleanup;
\* cleanup_temp_files is called only once the final save has returned, and
\* a checkpoint file leaves the disk only in that call.
C16_State ==
    /\ IsPrefix(steps, Pipeline(variant))
    /\ items # <<>> => pc \notin {"idle", "start"}
    /\ InSteps("scrape_all_occupations") =>
          pc = "done" /\ i = Len(all_links)
    /\ InSteps("merge_all_data") => merged.done
    /\ saved.called =>
          /\ InSteps("scrape_all_occupations")
          /\ variant = "final" => InSteps("merge_all_data")
    /\ cleaned.called => saved.returned
    /\ (main_pc = "exit" /\ main_exit # "completed") => ~cleaned.called
C16_Step ==
    (\E f \in files : f \notin files')
    => (saved.returned /\ main_pc = "cleanup" /\ cleaned'.called)
\* C16: the state part in every state, the step part in every step.
C16_PipelineOrder == [](C16_State) /\ [][C16_Step]_vars
C16_Witness ==
    /\ main_exit = "completed"
    /\ variant = "final"
    /\ steps = Pipeline("final")
    /\ Len(all_links) = 50
    /\ cleaned.deleted_count = 1
    /\ files = {}

\* C20: a checkpoint write adds a file of a new name and leaves every
\* file written before as it was, and the run opens no checkpoint file for
\* reading.
C20_State ==
    \A r \in reads : \E k \in 1..Len(ExistingFiles) : r = ExistingFiles[k]
C20_Step ==
    /\ (i' = i + 1 /\ pc' = "loop") =>
          /\ files \subseteq files'
          /\ Cardinality(files') = Cardinality(files)
                + (IF i' % CheckpointEvery(variant) = 0 THEN 1 ELSE 0)
          /\ Cardinality({f.name : f \in files'}) = Cardinality(files')
    /\ reads' # reads => main_pc = "begin"
\* C20: the state part in every state, the step part in every step.
C20_CheckpointsAdditive == [](C20_State) /\ [][C20_Step]_vars
C20_Witness ==
    /\ variant = "enhanced"
    /\ pc = "done"
    /\ i = 50
    /\ Cardinality(files) = 2
    /\ \E f, g \in files : Len(f.content) = 25 /\ Len(g.content) = 50
    /\ reads = {}

\* C19: the output of merge_all_data holds no title twice, its titles are
\* those of the two inputs together, and it has at most
\* len(existing_data) + len(new_data) records.
C19_MergeUnion ==
    merged.done =>
        /\ DistinctTitles(merged.out)
        /\ TitlesOf(merged.out) = TitlesOf(existing_data) \cup TitlesOf(new_data)
        /\ Len(merged.out) <= Len(existing_data) + Len(new_data)
        /\ Len(merged.out) = Cardinality(TitlesOf(merged.out))
C19_Witness ==
    /\ merged.done
    /\ Len(existing_data) = 2 /\ Len(new_data) = 2
    /\ TitlesOf(existing_data) = {"X"}
    /\ TitlesOf(new_data) = {"X", "Y"}
    /\ Len(merged.out) = 2

\* The record the same page gives when no step raises.
FaultFree == ExtractInfo(variant, ex_in.page, 0, FALSE).data

\* C17: extraction does not raise, and when the step of one field raises
\* internally every other field of the record has the value it has when
\* nothing raises.
C17_OnlyFaultedFieldDegrades ==
    ex_out.called =>
        /\ ~ex_out.raised
        /\ \A f \in ExFields(variant) :
              (ex_in.fault = 0 \/ f # ExSteps(variant)[ex_in.fault].field)
                  => ex_out.data[f] = FaultFree[f]

\* The valid links of the visited categories in the order of discovery:
\* category by category and, within a category, in the document order of
\* the matches of the selector used.
RECURSIVE DiscoveredFrom(_)
DiscoveredFrom(f) ==
    IF f > Len(family_log) THEN <<>>
    ELSE (IF family_log[f].used = 0 THEN <<>>
          ELSE SelectSeq(Select(family_log[f].soup, family_log[f].used),
                         ValidLink))
         \o DiscoveredFrom(f + 1)
TitleSeq(s) == [k \in 1..Len(s) |-> s[k].title]

\* C18: the item loop takes the discovered items one by one, each once,
\* in the iteration order of the mapping, which is the order in which the
\* titles were first discovered: category order, then page order.
C18_ProcessingOrder ==
    /\ TitleSeq(all_links)
           = TitleSeq(FirstOccurrences(DiscoveredFrom(1), 1))
    /\ Len(items) = i
    /\ i <= Len(all_links)
    /\ TitleSeq(items) = SubSeq(TitleSeq(all_links), 1, i)
    /\ pc = "done" => i = Len(all_links)
C18_Witness ==
    /\ pc = "done"
    /\ Len(family_log) = 2
    /\ TitleSeq(family_log[1].links) = <<1, 2, 3>>
    /\ TitleSeq(family_log[2].links) = <<9, 2>>
    /\ TitleSeq(items) = <<1, 2, 3, 9>>
    /\ all_links[2].url.href.path = "/find/summary/"

\* C21: a get_page call that returns None after its retries has emitted
\* an error-level log entry, whatever kind of failure the last attempt met.
C21_ErrorLogged ==
    (fetch.called /\ ~fetch.raised /\ fetch.result = None)
    => \E k \in 1..Len(fetch.log) : fetch.log[k] = "error"

\* Attempts of the call that failed and were followed by another attempt.
RetriedAttempts ==
    LET k == FirstOk(outcomes, retries)
    IN  IF k > 0 THEN k - 1 ELSE retries - 1

\* C23: get_page sleeps once after each failed attempt that another
\* attempt follows, 5 seconds after a timeout and 2^attempt seconds after
\* another request failure (attempt counted from 0), and sleeps neither
\* after the last attempt nor after a success.
C23_BackoffSchedule ==
    fetch.called =>
        fetch.sleeps =
            [k \in 1..RetriedAttempts |->
                IF outcomes[k] = "timeout" THEN 5
                ELSE IF k = 1 THEN 1 ELSE IF k = 2 THEN 2 ELSE 4]
C23_Witness ==
    /\ fetch.called
    /\ retries = 3
    /\ outcomes[1] = "error" /\ outcomes[2] = "error"
    /\ outcomes[3] = "timeout"
    /\ fetch.sleeps = <<1, 2>>
    /\ fetch.requests = 3
    /\ fetch.result = None

\* Seconds get_page sleeps inside a default call whose attempts meet outs.
FetchSleeps(outs) == SumSeq(GetPage(outs, DefaultRetries).sleeps)
RECURSIVE CategoryTime(_)
CategoryTime(f) ==
    IF f = 0 THEN 0
    ELSE CategoryTime(f - 1) + FetchSleeps(family_log[f].outs) + 2
RECURSIVE ItemTime(_)
ItemTime(k) ==
    IF k = 0 THEN 0
    ELSE ItemTime(k - 1) + FetchSleeps(items[k].outs)
             + (IF variant = "final" THEN 2 ELSE 3)

\* C24: every category listing fetch is followed by a sleep of 2 seconds
\* and every item fetch by one of 2 seconds (3 in the enhanced scraper),
\* whether the fetch succeeded or failed: the clock has advanced by at
\* least these sleeps, and those inside get_page, over the fetches made.
C24_SleepAfterEveryFetch ==
    pc \in {"discover", "discovered", "start", "loop", "done"} =>
        now - start_time >= CategoryTime(Len(family_log)) + ItemTime(Len(items))

\* The item's extraction raised an exception that is no request failure.
Crashed(outs) == GetPage(outs, DefaultRetries).raised

\* C25: an item whose extraction raises adds 1 to failed_count and no
\* record, and the loop goes on: it ends only after the last item, unless
\* a checkpoint write fails.
C25_State ==
    /\ \A k \in 1..Len(items) :
          Crashed(items[k].outs) => ~HasTitle(all_data, items[k].title)
    /\ pc = "done" => Len(items) = Len(all_links)
C25_Step ==
    (Len(items') = Len(items) + 1 /\ Crashed(LastItem(items').outs))
    => /\ failed_count' = failed_count + 1
       /\ all_data' = all_data
       /\ pc' = "loop" \/ CheckpointWriteFailed'
\* C25: the state part in every state, the step part in every step.
C25_ItemErrorDegrades == [](C25_State) /\ [][C25_Step]_vars
C25_Witness ==
    /\ pc = "done"
    /\ variant = "enhanced"
    /\ Len(all_links) = 2
    /\ Crashed(items[1].outs)
    /\ items[2].outs = PlainOutcome
    /\ failed_count = 1
    /\ TitleSeq(all_data) = <<2>>

\* C26: after i iterations len(all_data) + failed_count = i, and every
\* progress report, the final one included, shows successes and failures
\* that sum to the items processed; at the end, to the number of links.
C26_CountsSumToItems ==
    pc \in {"loop", "done", "raised"} =>
        /\ Len(all_data) + failed_count = i
        /\ \A k \in 1..Len(reports) :
              reports[k].rep.success + reports[k].rep.failed
                  = reports[k].rep.current
        /\ (pc = "done" /\ all_links # <<>>) =>
              LastItem(reports).rep.success + LastItem(reports).rep.failed
                  = Len(all_links)
C26_Witness ==
    /\ pc = "done"
    /\ variant = "final"
    /\ Len(all_links) = 2
    /\ Len(all_data) = 1 /\ failed_count = 1
    /\ items[2].outs = AllTimeouts
    /\ LastItem(reports).rep.success = 1
    /\ LastItem(reports).rep.failed = 1

\* The titles of the items among the first j whose page was fetched and
\* whose extraction did not raise, in processing order.
ExtractedTitles(j) ==
    LET ok(it) == LET page == GetPage(it.outs, DefaultRetries)
                  IN  ~page.raised /\ page.result # None
        kept == SelectSeq(SubSeq(items, 1, j), ok)
    IN  [k \in 1..Len(kept) |-> kept[k].title]

\* C27: every checkpoint holds exactly the records of the successfully
\* extracted items among the first j items, j a multiple of K, in
\* processing order, and is a prefix of the list the run holds.
C27_CheckpointContent ==
    pc \in {"loop", "done"} =>
        \A f \in files :
            /\ \E j \in 1..i :
                  /\ j % CheckpointEvery(variant) = 0
                  /\ TitleSeq(f.content) = ExtractedTitles(j)
            /\ IsPrefix(f.content, all_data)

\* C28: in main of scrape_all_final, once the scrape has returned no
\* records the run has ended, and it has merged nothing, written no final
\* file and cleaned nothing up, whatever load_existing_data had loaded.
C28_EmptyScrapeEndsRun ==
    (variant = "final" /\ InSteps("scrape_all_occupations")
        /\ new_data = <<>>)
    => /\ main_pc = "exit"
       /\ main_exit = "failed"
       /\ ~merged.done
       /\ ~saved.called /\ ~saved.written
       /\ ~cleaned.called
       /\ steps = <<"load_existing_data", "scrape_all_occupations">>
C28_Witness ==
    /\ variant = "final"
    /\ main_exit = "failed"
    /\ existing_data # <<>>
    /\ Len(all_links) = 2
    /\ failed_count = 2
    /\ new_data = <<>>

NoDuplicates(xs) ==
    \A j, k \in 1..Len(xs) : xs[j] = xs[k] => j = k

\* C22: every list extractor of the enhanced scraper returns a list
\* with no duplicate entries and of no more than 15 entries.
C22_ListsDedupedCapped ==
    ex_out.called =>
        /\ NoDuplicates(ex_out.list)
        /\ Len(ex_out.list) <= 15

\* Results collected before the k-th request was sent.
RECURSIVE CollectedBefore(_)
CollectedBefore(k) ==
    IF k <= 1 THEN 0
    ELSE CollectedBefore(k - 1) + jobs.requests[k - 1].n

\* C29: fetch_jobs asks for pages 1, 2, 3, ... in order, each once;
\* every request is sent while fewer than min_results results are
\* collected and after only 200 responses with results; so there are at
\* most min_results requests, and none after the call has ended.
C29_State ==
    jobs.pc # "idle" =>
        /\ \A k \in 1..Len(jobs.requests) :
              /\ jobs.requests[k].page = k
              /\ CollectedBefore(k) < jobs.min_results
        /\ \A k \in 1..(Len(jobs.requests) - 1) :
              /\ jobs.requests[k].status = StatusOk
              /\ jobs.requests[k].n > 0
        /\ Len(jobs.requests) <= jobs.min_results
C29_Step ==
    jobs'.requests # jobs.requests =>
        /\ jobs.pc = "loop"
        /\ Len(jobs'.requests) = Len(jobs.requests) + 1
\* C29: the state part in every state, the step part in every step.
C29_PagesInOrderUntilDone == [](C29_State) /\ [][C29_Step]_vars
C29_Witness ==
    /\ jobs.pc = "returned"
    /\ jobs.min_results = 4
    /\ Len(jobs.requests) = 4
    /\ jobs.requests[4].n = 0
    /\ Len(jobs.collected_jobs) = 3

\* C30: the times recorded in last_request_time by consecutive
\* get_occupation_data calls are at least 1 / requests_per_second = 2
\* seconds apart, and last_request_time never decreases.
C30_State ==
    bls.made =>
        \A k \in 2..Len(bls.times) :
            bls.times[k] - bls.times[k - 1] >= 2 * TicksPerSecond
C30_Step ==
    (bls.made /\ bls'.made) =>
        bls'.last_request_time >= bls.last_request_time
\* C30: the state part in every state, the step part in every step.
C30_RequestsSpaced == [](C30_State) /\ [][C30_Step]_vars
C30_Witness ==
    /\ bls.made
    /\ Len(bls.times) = 3
    /\ bls.slept[2] > 0
    /\ bls.times[2] - bls.times[1] = 2 * TicksPerSecond
    /\ bls.slept[3] = 0

====
